---- MODULE Spec2Model ----
(***************************************************************************)
(* Mailing campaigns of SendingMessages: the status resolver               *)
(* (Mailing.get_dynamic_status and its 60 s status cache), the manual      *)
(* send_mailing view, toggle_mailing_active, MailingCreateView and the     *)
(* send_mailings management command (handle / get_mailings_queryset /      *)
(* process_mailing / send_email / create_attempt), MailingUpdateView,      *)
(* MailingDeleteView, RecipientDeleteView and send_scheduled_mailings,     *)
(* the messages the mailings reference (MessageUpdateView,                 *)
(* MessageDeleteView), and the e-mail verification of users (register,     *)
(* verify_email, resend_verification).                                     *)
(*                                                                         *)
(* Every view and the whole management command run as one atomic step,     *)
(* with timezone.now() read as one instant per request; SpecRace alone     *)
(* serves a status read and a write of one mailing in two workers, one     *)
(* table or cache access per step.                                         *)
(***************************************************************************)
EXTENDS Integers, Sequences, FiniteSets, TLC

VARIABLES now, mailings, next_id, cache, attempts, recipient_table, last,
          messages, threads, accounts, next_token

vars == <<now, mailings, next_id, cache, attempts, recipient_table, last,
          messages, threads, accounts, next_token>>

----------------------------------------------------------------------------
(* Bounds of the model *)

MaxTime == 2
MaxMailings == 1
MaxAttempts == 2
MaxTokens == 3

(* Program constant: cache.set(cache_key, status, 60) *)
CacheTTL == 60

(* Program constant: timedelta(hours=24) of verify_email, in seconds *)
TokenLifetime == 86400

Times == 0..MaxTime
Ids == 1..MaxMailings

(* Registered users (a user stands for their e-mail) and the recipient    *)
(* directory.  u2 is in the managers group (create_groups), u1 is an       *)
(* ordinary user.                                                          *)
Users == {"u1", "u2"}
Recipients == {"r1", "r2"}
UnknownEmail == "nobody"
None == "None"

(* str(e) of the exception raised by send_mail *)
DeliveryErrors == {"SMTPException", "ConnectionRefused"}

(* The recipient sets a mailing form is submitted with *)
RecipientSets == SUBSET Recipients
(* the fixed server_response of a success record (Russian text in the source,
   transliterated) *)
DeliveredText == "Pismo uspeshno otpravleno"

Statuses == {"created", "started", "completed"}

(* The messages of the fixture and the texts a message form is submitted  *)
(* with; m1 was written by u1 and m2 by u2                                  *)
Messages == {"m1", "m2"}
Subjects == {"s1", "s2"}
Bodies == {"b1", "b2"}

(* One Message row *)
Message(subject, body, owner) == [subject |-> subject, body |-> body, owner |-> owner]

(* The message table the mailings of u1 are written against *)
InitialMessages == ("m1" :> Message("s1", "b1", "u1"))

(* No status read and no write is in progress: each request holds its   *)
(* position, the Mailing instance it loaded, and what it computed          *)
NoThreads ==
  [reader |-> [pc |-> "idle", pk |-> 0, self |-> None, status |-> None],
   writer |-> [pc |-> "idle", pk |-> 0, self |-> None, raised |-> FALSE]]

(* User rows: the e-mail verification fields.  The users of the fixture   *)
(* have verified their e-mail.                                              *)
Account(is_verified, token, sent_at) ==
  [is_verified |-> is_verified, email_verification_token |-> token,
   email_verification_sent_at |-> sent_at]

(* NULL of email_verification_token and of email_verification_sent_at *)
NoToken == 0
NotSent == -1

InitialAccounts == [u \in Users |-> Account(TRUE, NoToken, NotSent)]

(* The e-mails new users register with *)
NewEmails == {"u3", "u4"}

(* The tokens a verification link is followed with: uuid4().hex, the n-th *)
(* token issued is n                                                       *)
Tokens == 1..MaxTokens

----------------------------------------------------------------------------
(* Permissions *)

ManagerPerms == {"can_view_all_mailings", "can_disable_mailing"}

Managers == {"u2"}

has_perm(user, perm) == user \in Managers /\ perm \in ManagerPerms

----------------------------------------------------------------------------
(* The status cache: key mailing_status_<id> -> value with an expiry *)

NoCache == [key \in {} |-> None]

(* Variant: an entry never expires *)
cache_get_unexpiring(c, key, t) ==
  IF key \in DOMAIN c
    THEN c[key].value
    ELSE None

cache_get(c, key, t) ==
  IF key \in DOMAIN c /\ t < c[key].expires
    THEN c[key].value
    ELSE None

cache_set(c, key, value, t, timeout) ==
  [k \in DOMAIN c \cup {key} |->
     IF k = key THEN [value |-> value, expires |-> t + timeout] ELSE c[k]]

cache_delete(c, key) == [k \in DOMAIN c \ {key} |-> c[k]]

----------------------------------------------------------------------------
(* Mailing.get_dynamic_status *)

(* Variant: outside its window a mailing counts as not yet begun *)
compute_status_window_only(m, t) ==
  IF m.start_time <= t /\ t <= m.end_time /\ m.is_active THEN "started"
  ELSE IF m.is_active THEN "created"
  ELSE "completed"

(* Variant: the end of the window excluded *)
compute_status_exclusive_end(m, t) ==
  IF t < m.start_time THEN "created"
  ELSE IF m.start_time <= t /\ t < m.end_time /\ m.is_active THEN "started"
  ELSE "completed"

(* The three branches evaluated on a cache miss *)
compute_status(m, t) ==
  IF t < m.start_time THEN "created"
  ELSE IF m.start_time <= t /\ t <= m.end_time /\ m.is_active THEN "started"
  ELSE "completed"

(* Returns the status and the cache as the call leaves it *)
get_dynamic_status(id, m, c, t) ==
  LET status == cache_get(c, id, t) IN
  IF status = None
    THEN [status |-> compute_status(m, t), miss |-> TRUE,
          cache |-> cache_set(c, id, compute_status(m, t), t, CacheTTL)]
    ELSE [status |-> status, miss |-> FALSE, cache |-> c]

----------------------------------------------------------------------------
(* Mailing.clean / Mailing.save *)

(* TRUE iff clean() raises ValidationError *)
clean_raises(m, t) ==
  \/ m.start_time >= m.end_time
  \/ m.start_time < t

----------------------------------------------------------------------------
(* Storage helpers *)

(* One MailingAttempt row *)
Attempt(id, r, status, response) ==
  [mailing |-> id, recipient |-> r, status |-> status, server_response |-> response]

(* A sequence restricted to the members of a set, order kept *)
RECURSIVE Restrict(_, _)
Restrict(seq, S) ==
  IF seq = <<>> THEN <<>>
  ELSE IF Head(seq) \in S THEN <<Head(seq)>> \o Restrict(Tail(seq), S)
  ELSE Restrict(Tail(seq), S)

(* Recipient.Meta.ordering = ['-created_at']: the recipient directory is  *)
(* iterated newest first; r2 was registered after r1                       *)
RecipientOrder == <<"r2", "r1">>

(* Mailing.Meta.ordering = ['-created_at']: newest (largest id) first *)
RECURSIVE NewestFirst(_)
NewestFirst(S) ==
  IF S = {} THEN <<>>
  ELSE LET top == CHOOSE x \in S : \A y \in S : y <= x
       IN <<top>> \o NewestFirst(S \ {top})

(* The output of the request served in the last step; NoLast once the    *)
(* response has been returned                                              *)
NoLast ==
  [op |-> "none", pk |-> 0, user |-> None, level |-> "none", report |-> "none",
   at |-> 0, status |-> None, miss |-> FALSE, calls |-> <<>>, appended |-> 0,
   success_count |-> 0, failed_count |-> 0,
   args |-> [mailing_id |-> 0, user_email |-> None, force |-> FALSE, dry_run |-> FALSE],
   selected |-> <<>>, results |-> <<>>,
   summary |-> [printed |-> FALSE, total |-> 0, success |-> 0, failed |-> 0,
                skipped |-> 0],
   form |-> [start_time |-> 0, end_time |-> 0], stderr |-> None, cascaded |-> 0,
   token |-> 0]

----------------------------------------------------------------------------
(* No request is being answered *)
Idle == last = NoLast

Init ==
  /\ now = 0
  /\ mailings = <<>>
  /\ next_id = 1
  /\ cache = NoCache
  /\ attempts = <<>>
  /\ recipient_table = Recipients
  /\ last = NoLast
  /\ messages = InitialMessages
  /\ threads = NoThreads
  /\ accounts = InitialAccounts
  /\ next_token = 1

(* The clock advances *)
Tick ==
  /\ Idle
  /\ now < MaxTime
  /\ now' = now + 1
  /\ UNCHANGED <<mailings, next_id, cache, attempts, recipient_table, last,
               messages, threads, accounts, next_token>>

----------------------------------------------------------------------------
(* Mailing.save: full_clean(), then the cache key is dropped and the row   *)
(* written; clear_mailing_cache (post_save) drops the key once more.       *)
(* A ValidationError leaves the row and the cache as they were.            *)
save(ms, c, id, m, t) ==
  IF clean_raises(m, t)
    THEN [raised |-> TRUE, mailings |-> ms, cache |-> c]
    ELSE [raised |-> FALSE,
          mailings |-> (id :> m) @@ ms,
          cache |-> cache_delete(cache_delete(c, id), id)]

(* MailingForm.clean: TRUE iff the form is invalid *)
form_invalid(start, end, t) ==
  \/ start >= end
  \/ start < t

(* MailingForm.Meta.fields: recipients is a required multiple choice among *)
(* the stored recipients.  TRUE iff the field is invalid.                   *)
recipients_invalid(recips, table) ==
  \/ recips = {}
  \/ ~(recips \subseteq table)

(* MailingForm.Meta.fields: message is a required choice among the stored *)
(* messages.  TRUE iff the field is invalid.                                *)
message_invalid(message, table) == message \notin DOMAIN table

(* MailingCreateView: the form is validated, the owner is the requesting  *)
(* user, is_active takes its default                                       *)
MailingCreateView(user, start, end, message, recips) ==
  /\ Idle
  /\ next_id <= MaxMailings
  /\ LET m == [start_time |-> start, end_time |-> end, is_active |-> TRUE,
               message |-> message, recipients |-> recips, owner |-> user]
         saved == save(mailings, cache, next_id, m, now)
         ok == /\ ~recipients_invalid(recips, recipient_table)
               /\ ~message_invalid(message, messages)
               /\ ~form_invalid(start, end, now)
               /\ ~saved.raised
     IN /\ mailings' = IF ok THEN saved.mailings ELSE mailings
        /\ cache' = IF ok THEN saved.cache ELSE cache
        /\ next_id' = IF ok THEN next_id + 1 ELSE next_id
        /\ last' = [NoLast EXCEPT !.op = "create", !.user = user, !.at = now,
                                  !.pk = IF ok THEN next_id ELSE 0,
                                  !.level = IF ok THEN "success" ELSE "error",
                                  !.form = [start_time |-> start, end_time |-> end]]
  /\ UNCHANGED <<now, attempts, recipient_table,
               messages, threads, accounts, next_token>>

(* Variant: the submitted fields are written without validation *)
MailingUpdateView_unvalidated(user, pk, start, end, message, recips) ==
  /\ Idle
  /\ pk \in DOMAIN mailings
  /\ LET mailing == mailings[pk]
         denied == [NoLast EXCEPT !.op = "update", !.user = user, !.pk = pk, !.at = now,
                                  !.level = "forbidden"]
         base == [denied EXCEPT !.form = [start_time |-> start, end_time |-> end]]
     IN IF user # mailing.owner
          THEN /\ UNCHANGED <<mailings, cache>>
               /\ last' = denied
          ELSE /\ mailings' = (pk :> [mailing EXCEPT !.start_time = start,
                                                    !.end_time = end,
                                                    !.message = message,
                                                    !.recipients = recips]) @@ mailings
               /\ cache' = cache_delete(cache, pk)
               /\ last' = [base EXCEPT !.level = "success"]
  /\ UNCHANGED <<now, next_id, attempts, recipient_table,
               messages, threads, accounts, next_token>>

(* MailingUpdateView: the owner alone passes test_func; the form is       *)
(* validated, the row saved, the recipients set, the status key dropped    *)
MailingUpdateView(user, pk, start, end, message, recips) ==
  /\ Idle
  /\ pk \in DOMAIN mailings
  /\ LET mailing == mailings[pk]
         m == [mailing EXCEPT !.start_time = start, !.end_time = end,
                              !.message = message, !.recipients = recips]
         saved == save(mailings, cache, pk, m, now)
         ok == /\ ~recipients_invalid(recips, recipient_table)
               /\ ~message_invalid(message, messages)
               /\ ~form_invalid(start, end, now)
               /\ ~saved.raised
         denied == [NoLast EXCEPT !.op = "update", !.user = user, !.pk = pk, !.at = now,
                                  !.level = "forbidden"]
         base == [denied EXCEPT !.form = [start_time |-> start, end_time |-> end]]
     IN IF user # mailing.owner
          THEN /\ UNCHANGED <<mailings, cache>>
               /\ last' = denied
          ELSE /\ mailings' = IF ok THEN saved.mailings ELSE mailings
               /\ cache' = IF ok THEN cache_delete(saved.cache, pk) ELSE cache
               /\ last' = [base EXCEPT !.level = IF ok THEN "success" ELSE "error"]
  /\ UNCHANGED <<now, next_id, attempts, recipient_table,
               messages, threads, accounts, next_token>>

(* on_delete=CASCADE of MailingAttempt.mailing, variant: the records of a  *)
(* deleted mailing stay                                                     *)
cascade_mailing_keep(log, pk) == log

(* on_delete=CASCADE of MailingAttempt.mailing: the records of a deleted   *)
(* mailing go with it                                                       *)
cascade_mailing(log, pk) == SelectSeq(log, LAMBDA a : a.mailing # pk)

(* on_delete=CASCADE of MailingAttempt.recipient, variant: SET_NULL, the   *)
(* records of a deleted recipient stay without a recipient                  *)
cascade_recipient_set_null(log, r) ==
  [i \in DOMAIN log |-> IF log[i].recipient = r
                          THEN [log[i] EXCEPT !.recipient = None]
                          ELSE log[i]]

(* on_delete=CASCADE of MailingAttempt.recipient *)
cascade_recipient(log, r) == SelectSeq(log, LAMBDA a : a.recipient # r)

(* A table without one of its rows *)
without(ms, pk) == [id \in DOMAIN ms \ {pk} |-> ms[id]]

(* MailingDeleteView: the owner alone passes test_func; the row goes, its *)
(* attempt records cascade, post_delete drops the status key               *)
MailingDeleteView(user, pk) ==
  /\ Idle
  /\ pk \in DOMAIN mailings
  /\ LET base == [NoLast EXCEPT !.op = "delete_mailing", !.user = user, !.pk = pk,
                                !.at = now]
         kept == cascade_mailing(attempts, pk)
     IN IF user # mailings[pk].owner
          THEN /\ UNCHANGED <<mailings, cache, attempts>>
               /\ last' = [base EXCEPT !.level = "forbidden"]
          ELSE /\ mailings' = without(mailings, pk)
               /\ cache' = cache_delete(cache, pk)
               /\ attempts' = kept
               /\ last' = [base EXCEPT !.level = "success",
                                       !.cascaded = Len(attempts) - Len(kept)]
  /\ UNCHANGED <<now, next_id, recipient_table,
               messages, threads, accounts, next_token>>

(* The recipients were registered by u1 (OwnerMixin sets Recipient.owner) *)
recipient_owner(r) == "u1"

(* RecipientDeleteView: the owner alone passes test_func; the row goes,   *)
(* it leaves the recipients of every mailing and its attempt records       *)
(* cascade                                                                  *)
RecipientDeleteView(user, r) ==
  /\ Idle
  /\ r \in recipient_table
  /\ LET base == [NoLast EXCEPT !.op = "delete_recipient", !.user = user, !.at = now]
         kept == cascade_recipient(attempts, r)
     IN IF user # recipient_owner(r)
          THEN /\ UNCHANGED <<mailings, attempts, recipient_table>>
               /\ last' = [base EXCEPT !.level = "forbidden"]
          ELSE /\ recipient_table' = recipient_table \ {r}
               /\ mailings' = [id \in DOMAIN mailings |->
                                 [mailings[id] EXCEPT !.recipients = @ \ {r}]]
               /\ attempts' = kept
               /\ last' = [base EXCEPT !.level = "success",
                                       !.cascaded = Len(attempts) - Len(kept)]
  /\ UNCHANGED <<now, next_id, cache,
               messages, threads, accounts, next_token>>

(* toggle_mailing_active *)
toggle_mailing_active(user, pk) ==
  /\ Idle
  /\ pk \in DOMAIN mailings
  /\ LET mailing == mailings[pk]
         allowed == user = mailing.owner \/ has_perm(user, "can_disable_mailing")
         saved == save(mailings, cache, pk,
                       [mailing EXCEPT !.is_active = ~mailing.is_active], now)
     IN IF allowed
          THEN /\ mailings' = saved.mailings
               /\ cache' = IF saved.raised THEN saved.cache
                           ELSE cache_delete(saved.cache, pk)
               /\ last' = [NoLast EXCEPT !.op = "toggle", !.user = user, !.pk = pk,
                             !.at = now,
                             !.level = IF saved.raised THEN "exception" ELSE "success"]
          ELSE /\ UNCHANGED <<mailings, cache>>
               /\ last' = [NoLast EXCEPT !.op = "toggle", !.user = user, !.pk = pk,
                             !.at = now, !.level = "error"]
  /\ UNCHANGED <<now, next_id, attempts, recipient_table,
               messages, threads, accounts, next_token>>

(* MailingDetailView.get_context_data: shows the dynamic status *)
MailingDetailView(user, pk) ==
  /\ Idle
  /\ pk \in DOMAIN mailings
  /\ has_perm(user, "can_view_all_mailings") \/ mailings[pk].owner = user
  /\ LET got == get_dynamic_status(pk, mailings[pk], cache, now)
     IN /\ cache' = got.cache
        /\ last' = [NoLast EXCEPT !.op = "detail", !.user = user, !.pk = pk,
                      !.at = now, !.status = got.status, !.miss = got.miss]
  /\ UNCHANGED <<now, mailings, next_id, attempts, recipient_table,
               messages, threads, accounts, next_token>>

----------------------------------------------------------------------------
(* The delivery capability: django.core.mail.send_mail with               *)
(* fail_silently=False raises for the deliveries in fails, and returns    *)
(* otherwise                                                               *)
send_mail(id, r, fails) == [raised |-> <<id, r>> \in fails]

(* Variant: the text the message was first written with *)
mailing_message_as_written(id) ==
  [messages[mailings[id].message] EXCEPT !.subject = "s1", !.body = "b1"]

(* mailing.message: the foreign key is followed to the stored Message row *)
(* when the send loop reads mailing.message.subject and .body              *)
mailing_message(id) == messages[mailings[id].message]

(* One entry of the delivery log: the call, with the subject and message  *)
(* arguments it was given, and what the transport did                      *)
Call(id, r, raised, err) ==
  [mailing |-> id, recipient |-> r, subject |-> mailing_message(id).subject,
   body |-> mailing_message(id).body, outcome |-> IF raised THEN err ELSE "ok"]

(* State threaded through a recipient loop *)
LoopStart(log) ==
  [success_count |-> 0, failed_count |-> 0, attempts |-> log, calls |-> <<>>]

(* Variant: a failed delivery is counted but leaves no record *)
RECURSIVE view_send_loop_unrecorded(_, _, _, _, _)
view_send_loop_unrecorded(id, rs, fails, err, acc) ==
  IF rs = <<>> THEN acc
  ELSE
    LET recipient == Head(rs)
        sent == send_mail(id, recipient, fails)
        next == [success_count |-> acc.success_count + (IF sent.raised THEN 0 ELSE 1),
                 failed_count |-> acc.failed_count + (IF sent.raised THEN 1 ELSE 0),
                 attempts |-> IF sent.raised THEN acc.attempts
                              ELSE Append(acc.attempts,
                                          Attempt(id, recipient, "success", DeliveredText)),
                 calls |-> Append(acc.calls, Call(id, recipient, sent.raised, err))]
    IN view_send_loop_unrecorded(id, Tail(rs), fails, err, next)

(* Variant: update_or_create, the record of an earlier dispatch to the    *)
(* same recipient is replaced                                              *)
RECURSIVE view_send_loop_dedup(_, _, _, _, _)
view_send_loop_dedup(id, rs, fails, err, acc) ==
  IF rs = <<>> THEN acc
  ELSE
    LET recipient == Head(rs)
        sent == send_mail(id, recipient, fails)
        status == IF sent.raised THEN "failed" ELSE "success"
        response == IF sent.raised THEN err ELSE DeliveredText
        others == SelectSeq(acc.attempts,
                            LAMBDA a : ~(a.mailing = id /\ a.recipient = recipient))
        next == [success_count |-> acc.success_count + (IF sent.raised THEN 0 ELSE 1),
                 failed_count |-> acc.failed_count + (IF sent.raised THEN 1 ELSE 0),
                 attempts |-> Append(others, Attempt(id, recipient, status, response)),
                 calls |-> Append(acc.calls, Call(id, recipient, sent.raised, err))]
    IN view_send_loop_dedup(id, Tail(rs), fails, err, next)

(* send_mailing: the body of "for recipient in mailing.recipients.all()" *)
RECURSIVE view_send_loop(_, _, _, _, _)
view_send_loop(id, rs, fails, err, acc) ==
  IF rs = <<>> THEN acc
  ELSE
    LET recipient == Head(rs)
        sent == send_mail(id, recipient, fails)
        status == IF sent.raised THEN "failed" ELSE "success"
        response == IF sent.raised THEN err ELSE DeliveredText
        next == [success_count |-> acc.success_count + (IF sent.raised THEN 0 ELSE 1),
                 failed_count |-> acc.failed_count + (IF sent.raised THEN 1 ELSE 0),
                 attempts |-> Append(acc.attempts, Attempt(id, recipient, status, response)),
                 calls |-> Append(acc.calls, Call(id, recipient, sent.raised, err))]
    IN view_send_loop(id, Tail(rs), fails, err, next)

(* Variant: any logged-in user may start any mailing *)
send_mailing_unguarded(user, pk, fails, err) ==
  /\ Idle
  /\ pk \in DOMAIN mailings
  /\ LET mailing == mailings[pk]
         denied == FALSE
         got == get_dynamic_status(pk, mailing, cache, now)
         done == view_send_loop(pk, Restrict(RecipientOrder, mailing.recipients), fails, err,
                                LoopStart(attempts))
         base == [NoLast EXCEPT !.op = "send_mailing", !.user = user, !.pk = pk,
                                !.at = now]
     IN IF denied
          THEN /\ UNCHANGED <<cache, attempts>>
               /\ last' = [base EXCEPT !.level = "error", !.report = "no_permission"]
          ELSE IF got.status # "started"
            THEN /\ cache' = got.cache
                 /\ UNCHANGED attempts
                 /\ last' = [base EXCEPT !.level = "error", !.report = "not_started",
                                         !.status = got.status, !.miss = got.miss]
            ELSE /\ Len(done.attempts) <= MaxAttempts
                 /\ cache' = got.cache
                 /\ attempts' = done.attempts
                 /\ last' = [base EXCEPT !.level = "success", !.report = "completed",
                               !.status = got.status, !.miss = got.miss,
                               !.calls = done.calls,
                               !.appended = Len(done.attempts) - Len(attempts),
                               !.success_count = done.success_count,
                               !.failed_count = done.failed_count]
  /\ UNCHANGED <<now, mailings, next_id, recipient_table,
               messages, threads, accounts, next_token>>

(* send_mailing: manual start of a mailing *)
send_mailing(user, pk, fails, err) ==
  /\ Idle
  /\ pk \in DOMAIN mailings
  /\ LET mailing == mailings[pk]
         denied == user # mailing.owner /\ ~has_perm(user, "can_view_all_mailings")
         got == get_dynamic_status(pk, mailing, cache, now)
         done == view_send_loop(pk, Restrict(RecipientOrder, mailing.recipients), fails, err,
                                LoopStart(attempts))
         base == [NoLast EXCEPT !.op = "send_mailing", !.user = user, !.pk = pk,
                                !.at = now]
     IN IF denied
          THEN /\ UNCHANGED <<cache, attempts>>
               /\ last' = [base EXCEPT !.level = "error", !.report = "no_permission"]
          ELSE IF got.status # "started"
            THEN /\ cache' = got.cache
                 /\ UNCHANGED attempts
                 /\ last' = [base EXCEPT !.level = "error", !.report = "not_started",
                                         !.status = got.status, !.miss = got.miss]
            ELSE /\ Len(done.attempts) <= MaxAttempts
                 /\ cache' = got.cache
                 /\ attempts' = done.attempts
                 /\ last' = [base EXCEPT !.level = "success", !.report = "completed",
                               !.status = got.status, !.miss = got.miss,
                               !.calls = done.calls,
                               !.appended = Len(done.attempts) - Len(attempts),
                               !.success_count = done.success_count,
                               !.failed_count = done.failed_count]
  /\ UNCHANGED <<now, mailings, next_id, recipient_table,
               messages, threads, accounts, next_token>>

----------------------------------------------------------------------------
(* The send_mailings management command *)

(* Variant: end_time__gt instead of end_time__gte *)
base_queryset_exclusive_end(mailing_id, force, ms, t) ==
  IF mailing_id # 0
    THEN {id \in DOMAIN ms : id = mailing_id}
    ELSE IF force
      THEN {id \in DOMAIN ms : ms[id].is_active}
      ELSE {id \in DOMAIN ms : /\ ms[id].start_time <= t
                                /\ ms[id].end_time > t
                                /\ ms[id].is_active}

(* Variant: a forced run takes every mailing *)
base_queryset_force_all(mailing_id, force, ms, t) ==
  IF mailing_id # 0
    THEN {id \in DOMAIN ms : id = mailing_id}
    ELSE IF force
      THEN DOMAIN ms
      ELSE {id \in DOMAIN ms : /\ ms[id].start_time <= t
                                /\ ms[id].end_time >= t
                                /\ ms[id].is_active}

(* Command.get_mailings_queryset, the base queryset: the ids it selects.  *)
(* mailing_id = 0 stands for an option not given.                          *)
base_queryset(mailing_id, force, ms, t) ==
  IF mailing_id # 0
    THEN {id \in DOMAIN ms : id = mailing_id}
    ELSE IF force
      THEN {id \in DOMAIN ms : ms[id].is_active}
      ELSE {id \in DOMAIN ms : /\ ms[id].start_time <= t
                                /\ ms[id].end_time >= t
                                /\ ms[id].is_active}

(* Command.get_mailings_queryset: User.objects.get(email=user_email)      *)
(* raises User.DoesNotExist, which is caught and written as an error       *)
user_not_found(user_email) == user_email # None /\ user_email \notin Users

(* Variant: after the error is written the unfiltered queryset is returned *)
get_mailings_queryset_unfiltered(mailing_id, user_email, force, ms, t) ==
  IF user_email # None /\ user_email \in Users
    THEN {id \in base_queryset(mailing_id, force, ms, t) : ms[id].owner = user_email}
    ELSE base_queryset(mailing_id, force, ms, t)

(* Command.get_mailings_queryset with the owner filter; user_email = None *)
(* stands for an option not given                                          *)
get_mailings_queryset(mailing_id, user_email, force, ms, t) ==
  IF user_email # None
    THEN IF user_email \in Users
           THEN {id \in base_queryset(mailing_id, force, ms, t) : ms[id].owner = user_email}
           ELSE {}
    ELSE base_queryset(mailing_id, force, ms, t)

(* Command.send_email: send_mail raises or the method returns True *)
send_email(id, r, fails) == [raised |-> send_mail(id, r, fails).raised, value |-> TRUE]

(* Variant: the first delivery error ends the loop *)
RECURSIVE batch_send_loop_abort(_, _, _, _, _)
batch_send_loop_abort(id, rs, fails, err, acc) ==
  IF rs = <<>> THEN acc
  ELSE
    LET recipient == Head(rs)
        sent == send_email(id, recipient, fails)
        call == Append(acc.calls, Call(id, recipient, sent.raised, err))
    IN IF sent.raised
         THEN [acc EXCEPT !.failed_count = @ + 1, !.calls = call,
                 !.attempts = Append(@, Attempt(id, recipient, "failed", err))]
         ELSE batch_send_loop_abort(id, Tail(rs), fails, err,
                [acc EXCEPT !.success_count = @ + 1, !.calls = call,
                   !.attempts = Append(@, Attempt(id, recipient, "success", DeliveredText))])

(* Command.process_mailing: the body of "for recipient in recipients" *)
RECURSIVE batch_send_loop(_, _, _, _, _)
batch_send_loop(id, rs, fails, err, acc) ==
  IF rs = <<>> THEN acc
  ELSE
    LET recipient == Head(rs)
        sent == send_email(id, recipient, fails)
        call == Append(acc.calls, Call(id, recipient, sent.raised, err))
        next ==
          IF sent.raised
            THEN [acc EXCEPT !.failed_count = @ + 1, !.calls = call,
                    !.attempts = Append(@, Attempt(id, recipient, "failed", err))]
          ELSE IF sent.value
            THEN [acc EXCEPT !.success_count = @ + 1, !.calls = call,
                    !.attempts = Append(@, Attempt(id, recipient, "success", DeliveredText))]
          ELSE [acc EXCEPT !.failed_count = @ + 1, !.calls = call]
    IN batch_send_loop(id, Tail(rs), fails, err, next)

(* Variant: a skipped mailing is also reported as failed *)
Skipped_as_failed(status, why, c, log) ==
  [success |-> FALSE, failed |-> TRUE, skipped |-> TRUE, status |-> status,
   why |-> why, success_count |-> 0, failed_count |-> 0, calls |-> <<>>,
   cache |-> c, attempts |-> log]

(* What process_mailing returns, with what it did *)
Skipped(status, why, c, log) ==
  [success |-> FALSE, failed |-> FALSE, skipped |-> TRUE, status |-> status,
   why |-> why, success_count |-> 0, failed_count |-> 0, calls |-> <<>>,
   cache |-> c, attempts |-> log]

(* Variant: the status check is left out *)
process_mailing_unchecked(id, mailing, force, dry_run, fails, err, c, log, t) ==
  LET got == get_dynamic_status(id, mailing, c, t)
      recipients == Restrict(RecipientOrder, mailing.recipients)
      done == batch_send_loop(id, recipients, fails, err, LoopStart(log))
  IN IF recipients = <<>>
       THEN Skipped(got.status, "no_recipients", got.cache, log)
     ELSE IF dry_run
       THEN [success |-> TRUE, failed |-> FALSE, skipped |-> FALSE,
             status |-> got.status, why |-> "dry_run",
             success_count |-> 0, failed_count |-> 0, calls |-> <<>>,
             cache |-> got.cache, attempts |-> log]
     ELSE [success |-> done.success_count > 0, failed |-> done.failed_count > 0,
           skipped |-> FALSE, status |-> got.status, why |-> "sent",
           success_count |-> done.success_count, failed_count |-> done.failed_count,
           calls |-> done.calls, cache |-> got.cache, attempts |-> done.attempts]

(* Variant: the dry_run flag is not looked at *)
process_mailing_wet(id, mailing, force, dry_run, fails, err, c, log, t) ==
  LET got == get_dynamic_status(id, mailing, c, t)
      dynamic_status == got.status
      recipients == Restrict(RecipientOrder, mailing.recipients)
      done == batch_send_loop(id, recipients, fails, err, LoopStart(log))
  IN IF ~force /\ dynamic_status # "started"
       THEN Skipped(dynamic_status, "not_started", got.cache, log)
     ELSE IF recipients = <<>>
       THEN Skipped(dynamic_status, "no_recipients", got.cache, log)
     ELSE [success |-> done.success_count > 0, failed |-> done.failed_count > 0,
           skipped |-> FALSE, status |-> dynamic_status, why |-> "sent",
           success_count |-> done.success_count, failed_count |-> done.failed_count,
           calls |-> done.calls, cache |-> got.cache, attempts |-> done.attempts]

(* Command.process_mailing *)
process_mailing(id, mailing, force, dry_run, fails, err, c, log, t) ==
  LET got == get_dynamic_status(id, mailing, c, t)
      dynamic_status == got.status
      recipients == Restrict(RecipientOrder, mailing.recipients)
      done == batch_send_loop(id, recipients, fails, err, LoopStart(log))
  IN IF ~force /\ dynamic_status # "started"
       THEN Skipped(dynamic_status, "not_started", got.cache, log)
     ELSE IF recipients = <<>>
       THEN Skipped(dynamic_status, "no_recipients", got.cache, log)
     ELSE IF dry_run
       THEN [success |-> TRUE, failed |-> FALSE, skipped |-> FALSE,
             status |-> dynamic_status, why |-> "dry_run",
             success_count |-> 0, failed_count |-> 0, calls |-> <<>>,
             cache |-> got.cache, attempts |-> log]
     ELSE [success |-> done.success_count > 0, failed |-> done.failed_count > 0,
           skipped |-> FALSE, status |-> dynamic_status, why |-> "sent",
           success_count |-> done.success_count, failed_count |-> done.failed_count,
           calls |-> done.calls, cache |-> got.cache, attempts |-> done.attempts]

(* Command.handle: "for mailing in mailings" with the results counters *)
RunStart(c, log) ==
  [cache |-> c, attempts |-> log, calls |-> <<>>, results |-> <<>>,
   total |-> 0, success |-> 0, failed |-> 0, skipped |-> 0]

(* Variant: a mailing with a failed delivery ends the run *)
RECURSIVE run_mailings_abort(_, _, _, _, _, _, _, _)
run_mailings_abort(ids, ms, force, dry_run, fails, err, acc, t) ==
  IF ids = <<>> THEN acc
  ELSE
    LET id == Head(ids)
        result == process_mailing(id, ms[id], force, dry_run, fails, err,
                                  acc.cache, acc.attempts, t)
        next == [cache |-> result.cache,
                 attempts |-> result.attempts,
                 calls |-> acc.calls \o result.calls,
                 results |-> (id :> [success |-> result.success,
                                     failed |-> result.failed,
                                     skipped |-> result.skipped,
                                     status |-> result.status,
                                     why |-> result.why,
                                     success_count |-> result.success_count,
                                     failed_count |-> result.failed_count,
                                     calls |-> result.calls,
                                     appended |-> Len(result.attempts) - Len(acc.attempts)])
                             @@ acc.results,
                 total |-> acc.total + 1,
                 success |-> acc.success + (IF result.success THEN 1 ELSE 0),
                 failed |-> acc.failed + (IF result.failed THEN 1 ELSE 0),
                 skipped |-> acc.skipped + (IF result.skipped THEN 1 ELSE 0)]
    IN IF result.failed THEN next
       ELSE run_mailings_abort(Tail(ids), ms, force, dry_run, fails, err, next, t)

RECURSIVE run_mailings(_, _, _, _, _, _, _, _)
run_mailings(ids, ms, force, dry_run, fails, err, acc, t) ==
  IF ids = <<>> THEN acc
  ELSE
    LET id == Head(ids)
        result == process_mailing(id, ms[id], force, dry_run, fails, err,
                                  acc.cache, acc.attempts, t)
        next == [cache |-> result.cache,
                 attempts |-> result.attempts,
                 calls |-> acc.calls \o result.calls,
                 results |-> (id :> [success |-> result.success,
                                     failed |-> result.failed,
                                     skipped |-> result.skipped,
                                     status |-> result.status,
                                     why |-> result.why,
                                     success_count |-> result.success_count,
                                     failed_count |-> result.failed_count,
                                     calls |-> result.calls,
                                     appended |-> Len(result.attempts) - Len(acc.attempts)])
                             @@ acc.results,
                 total |-> acc.total + 1,
                 success |-> acc.success + (IF result.success THEN 1 ELSE 0),
                 failed |-> acc.failed + (IF result.failed THEN 1 ELSE 0),
                 skipped |-> acc.skipped + (IF result.skipped THEN 1 ELSE 0)]
    IN run_mailings(Tail(ids), ms, force, dry_run, fails, err, next, t)

(* Command.handle: one run of the command *)
handle(mailing_id, user_email, force, dry_run, fails, err) ==
  /\ Idle
  /\ LET selected == NewestFirst(get_mailings_queryset(mailing_id, user_email, force,
                                                       mailings, now))
         run == run_mailings(selected, mailings, force, dry_run, fails, err,
                             RunStart(cache, attempts), now)
         base == [NoLast EXCEPT !.op = "handle", !.at = now, !.selected = selected,
                    !.args = [mailing_id |-> mailing_id, user_email |-> user_email,
                              force |-> force, dry_run |-> dry_run],
                    !.stderr = IF user_not_found(user_email)
                                 THEN "user_not_found" ELSE None]
     IN IF selected = <<>>
          THEN /\ UNCHANGED <<cache, attempts>>
               /\ last' = [base EXCEPT !.level = "warning", !.report = "nothing_to_send"]
          ELSE /\ Len(run.attempts) <= MaxAttempts
               /\ cache' = run.cache
               /\ attempts' = run.attempts
               /\ last' = [base EXCEPT !.level = "success", !.report = "summary",
                             !.calls = run.calls,
                             !.appended = Len(run.attempts) - Len(attempts),
                             !.results = run.results,
                             !.summary = [printed |-> TRUE, total |-> run.total,
                                          success |-> run.success,
                                          failed |-> run.failed,
                                          skipped |-> run.skipped]]
  /\ UNCHANGED <<now, mailings, next_id, recipient_table,
               messages, threads, accounts, next_token>>

----------------------------------------------------------------------------
(* send_scheduled_mailings: the body of "for recipient in                 *)
(* mailing.recipients.all()"                                               *)
RECURSIVE scheduled_send_loop(_, _, _, _, _)
scheduled_send_loop(id, rs, fails, err, acc) ==
  IF rs = <<>> THEN acc
  ELSE
    LET recipient == Head(rs)
        sent == send_mail(id, recipient, fails)
        record == IF sent.raised THEN Attempt(id, recipient, "failed", err)
                  ELSE Attempt(id, recipient, "success", DeliveredText)
    IN scheduled_send_loop(id, Tail(rs), fails, err,
         [acc EXCEPT !.attempts = Append(@, record),
                     !.calls = Append(@, Call(id, recipient, sent.raised, err))])

(* send_scheduled_mailings: "for mailing in mailings" *)
RECURSIVE scheduled_run(_, _, _, _, _)
scheduled_run(ids, ms, fails, err, acc) ==
  IF ids = <<>> THEN acc
  ELSE scheduled_run(Tail(ids), ms, fails, err,
         scheduled_send_loop(Head(ids), Restrict(RecipientOrder, ms[Head(ids)].recipients),
                             fails, err, acc))

(* send_scheduled_mailings: the mailings inside their window and active   *)
(* are sent to, straight from the stored fields                            *)
send_scheduled_mailings(fails, err) ==
  /\ Idle
  /\ LET selected == NewestFirst({id \in DOMAIN mailings :
                                    /\ mailings[id].start_time <= now
                                    /\ mailings[id].end_time >= now
                                    /\ mailings[id].is_active})
         done == scheduled_run(selected, mailings, fails, err, LoopStart(attempts))
     IN /\ Len(done.attempts) <= MaxAttempts
        /\ attempts' = done.attempts
        /\ last' = [NoLast EXCEPT !.op = "send_scheduled_mailings", !.at = now,
                      !.selected = selected, !.calls = done.calls,
                      !.appended = Len(done.attempts) - Len(attempts)]
  /\ UNCHANGED <<now, mailings, next_id, cache, recipient_table,
               messages, threads, accounts, next_token>>

----------------------------------------------------------------------------
(* The response has been returned: the output of the request is gone *)
Respond ==
  /\ ~Idle
  /\ last' = NoLast
  /\ UNCHANGED <<now, mailings, next_id, cache, attempts, recipient_table,
               messages, threads, accounts, next_token>>

(* The deliveries a request attempts (they do not depend on which of     *)
(* them fail; none while no request is served), and the errors they can   *)
(* raise                                                                   *)
ViewTargets(pk) ==
  IF Idle /\ pk \in DOMAIN mailings
       /\ get_dynamic_status(pk, mailings[pk], cache, now).status = "started"
    THEN {pk} \X mailings[pk].recipients
    ELSE {}

BatchTargets(mailing_id, user_email, force, dry_run) ==
  IF ~Idle THEN {} ELSE
  LET run == run_mailings(NewestFirst(get_mailings_queryset(mailing_id, user_email,
                                                            force, mailings, now)),
                          mailings, force, dry_run, {}, None,
                          RunStart(cache, attempts), now)
  IN {<<run.calls[i].mailing, run.calls[i].recipient>> : i \in DOMAIN run.calls}

ScheduledTargets ==
  IF ~Idle THEN {} ELSE
  UNION {{id} \X mailings[id].recipients :
           id \in {i \in DOMAIN mailings : /\ mailings[i].start_time <= now
                                            /\ mailings[i].end_time >= now
                                            /\ mailings[i].is_active}}

Raised(fails) == IF fails = {} THEN {CHOOSE e \in DeliveryErrors : TRUE} ELSE DeliveryErrors

(* The --user-email options the command is run with: none, the e-mail of *)
(* no user, the e-mail of a user                                           *)
EmailOptions == {None, UnknownEmail, "u1"}

(* Requests are served one at a time *)
Next ==
  \/ Tick
  \/ Respond
  \/ \E user \in Users, start \in Times, end \in Times, message \in DOMAIN messages,
        recips \in RecipientSets :
       MailingCreateView(user, start, end, message, recips)
  \/ \E user \in Users, pk \in Ids, start \in Times, end \in Times,
        message \in DOMAIN messages, recips \in RecipientSets :
       MailingUpdateView(user, pk, start, end, message, recips)
  \/ \E user \in Users, pk \in Ids : MailingDeleteView(user, pk)
  \/ \E user \in Users, r \in Recipients : RecipientDeleteView(user, r)
  \/ \E fails \in SUBSET ScheduledTargets : \E err \in Raised(fails) :
       send_scheduled_mailings(fails, err)
  \/ \E user \in Users, pk \in Ids : toggle_mailing_active(user, pk)
  \/ \E user \in Users, pk \in Ids : MailingDetailView(user, pk)
  \/ \E user \in Users, pk \in Ids :
       \E fails \in SUBSET ViewTargets(pk) : \E err \in Raised(fails) :
         send_mailing(user, pk, fails, err)
  \/ \E mailing_id \in {0} \cup Ids, user_email \in EmailOptions,
        force \in BOOLEAN, dry_run \in BOOLEAN :
       \E fails \in SUBSET BatchTargets(mailing_id, user_email, force, dry_run) :
         \E err \in Raised(fails) :
           handle(mailing_id, user_email, force, dry_run, fails, err)

Spec == Init /\ [][Next]_vars

----------------------------------------------------------------------------
(* The status resolver on its own: one stored mailing with any start,     *)
(* end and is_active, read at any instant, with or without a cached status *)
InitStatus ==
  /\ now \in Times
  /\ \E start \in Times, end \in Times, active \in BOOLEAN :
       mailings = (1 :> [start_time |-> start, end_time |-> end, is_active |-> active,
                         message |-> "m1", recipients |-> {}, owner |-> "u1"])
  /\ next_id = 2
  /\ \/ cache = NoCache
     \/ \E v \in Statuses : cache = cache_set(NoCache, 1, v, now, CacheTTL)
  /\ attempts = <<>>
  /\ recipient_table = Recipients
  /\ last = NoLast
  /\ messages = InitialMessages
  /\ threads = NoThreads
  /\ accounts = InitialAccounts
  /\ next_token = 1

NextStatus ==
  \/ Respond
  \/ \E user \in Users : MailingDetailView(user, 1)

SpecStatus == InitStatus /\ [][NextStatus]_vars

----------------------------------------------------------------------------
(* The status cache over its lifetime: the clock also moves by a whole    *)
(* cache timeout, and by one unit less, so that an entry is read just     *)
(* before and after it expires.  Mailings go to the whole directory; the  *)
(* status is read by the detail view.                                      *)
Elapsed == {1, CacheTTL - 1, CacheTTL}

Elapse(d) ==
  /\ Idle
  /\ now + d <= MaxTime + CacheTTL
  /\ now' = now + d
  /\ UNCHANGED <<mailings, next_id, cache, attempts, recipient_table, last,
               messages, threads, accounts, next_token>>

NextCache ==
  \/ \E d \in Elapsed : Elapse(d)
  \/ Respond
  \/ \E user \in Users, start \in Times, end \in Times, message \in DOMAIN messages :
       MailingCreateView(user, start, end, message, Recipients)
  \/ \E user \in Users, pk \in Ids, start \in Times, end \in Times,
        message \in DOMAIN messages :
       MailingUpdateView(user, pk, start, end, message, Recipients)
  \/ \E user \in Users, pk \in Ids : toggle_mailing_active(user, pk)
  \/ \E user \in Users, pk \in Ids : MailingDetailView(user, pk)

SpecCache == Init /\ [][NextCache]_vars

----------------------------------------------------------------------------
(* One run of the command over any table of two mailings with            *)
(* recipients: every window with start_time < end_time, either is_active,  *)
(* any owner, read at any instant with the status cache empty              *)
StoredMailings ==
  {[start_time |-> start, end_time |-> end, is_active |-> active,
    message |-> "m1", recipients |-> Recipients, owner |-> owner] :
     start \in Times, end \in Times, active \in BOOLEAN, owner \in Users}

SelectIds == 1..(MaxMailings + 1)

InitSelect ==
  /\ now \in Times
  /\ mailings \in [SelectIds -> {m \in StoredMailings : m.start_time < m.end_time}]
  /\ next_id = MaxMailings + 2
  /\ cache = NoCache
  /\ attempts = <<>>
  /\ recipient_table = Recipients
  /\ last = NoLast
  /\ messages = InitialMessages
  /\ threads = NoThreads
  /\ accounts = InitialAccounts
  /\ next_token = 1

(* The transport is up during the run: no delivery raises *)
NextSelect ==
  \E mailing_id \in 0..next_id, user_email \in {None, UnknownEmail} \cup Users,
     force \in BOOLEAN, dry_run \in BOOLEAN :
    handle(mailing_id, user_email, force, dry_run, {}, None)

SpecSelect == InitSelect /\ [][NextSelect]_vars

----------------------------------------------------------------------------
(* One run of the command over all mailings, on any table of two mailings *)
(* of u1 with no, one or two recipients each (a mailing is left without   *)
(* recipients when they are deleted), with any deliveries failing          *)
BatchMailings ==
  {[start_time |-> start, end_time |-> end, is_active |-> active,
    message |-> "m1", recipients |-> recips, owner |-> "u1"] :
     start \in Times, end \in Times, active \in BOOLEAN,
     recips \in RecipientSets}

InitBatch ==
  /\ now \in Times
  /\ mailings \in [SelectIds -> {m \in BatchMailings : m.start_time < m.end_time}]
  /\ next_id = MaxMailings + 2
  /\ cache = NoCache
  /\ attempts = <<>>
  /\ recipient_table = Recipients
  /\ last = NoLast
  /\ messages = InitialMessages
  /\ threads = NoThreads
  /\ accounts = InitialAccounts
  /\ next_token = 1

NextBatch ==
  \E force \in BOOLEAN, dry_run \in BOOLEAN :
    \E fails \in SUBSET BatchTargets(0, None, force, dry_run) :
      \E err \in Raised(fails) :
        handle(0, None, force, dry_run, fails, err)

SpecBatch == InitBatch /\ [][NextBatch]_vars

----------------------------------------------------------------------------
(* The status of one stored mailing as time passes: any start, end and    *)
(* is_active, never written; the status is read by the detail view, and   *)
(* the clock moves on                                                      *)
InitClock ==
  /\ now = 0
  /\ \E start \in Times, end \in Times, active \in BOOLEAN :
       mailings = (1 :> [start_time |-> start, end_time |-> end, is_active |-> active,
                         message |-> "m1", recipients |-> Recipients, owner |-> "u1"])
  /\ next_id = 2
  /\ cache = NoCache
  /\ attempts = <<>>
  /\ recipient_table = Recipients
  /\ last = NoLast
  /\ messages = InitialMessages
  /\ threads = NoThreads
  /\ accounts = InitialAccounts
  /\ next_token = 1

NextClock ==
  \/ Tick
  \/ Respond
  \/ \E user \in Users : MailingDetailView(user, 1)

SpecClock == InitClock /\ [][NextClock]_vars

----------------------------------------------------------------------------
(* Two requests served by two workers at once: one reads the status of a  *)
(* mailing (get_dynamic_status on the instance its view loaded), one      *)
(* writes the mailing (toggle_mailing_active, or MailingUpdateView with a *)
(* new window).  Each access to the table or to the cache is one step.    *)

(* The reading view loads its Mailing instance *)
reader_get_object(pk) ==
  /\ threads.reader.pc = "idle"
  /\ pk \in DOMAIN mailings
  /\ threads' = [threads EXCEPT !.reader = [pc |-> "loaded", pk |-> pk,
                                            self |-> mailings[pk], status |-> None]]
  /\ UNCHANGED <<now, mailings, next_id, cache, attempts, recipient_table, last,
               messages, accounts, next_token>>

(* get_dynamic_status: cache.get; on a miss the branches are evaluated on *)
(* the fields of the instance                                              *)
get_dynamic_status_get ==
  /\ threads.reader.pc = "loaded"
  /\ LET reader == threads.reader
         status == cache_get(cache, reader.pk, now)
     IN threads' = [threads EXCEPT !.reader =
          IF status = None
            THEN [reader EXCEPT !.pc = "computed",
                                !.status = compute_status(reader.self, now)]
            ELSE [reader EXCEPT !.pc = "done", !.status = status]]
  /\ UNCHANGED <<now, mailings, next_id, cache, attempts, recipient_table, last,
               messages, accounts, next_token>>

(* get_dynamic_status: cache.set(cache_key, status, 60) *)
get_dynamic_status_set ==
  /\ threads.reader.pc = "computed"
  /\ cache' = cache_set(cache, threads.reader.pk, threads.reader.status, now, CacheTTL)
  /\ threads' = [threads EXCEPT !.reader.pc = "done"]
  /\ UNCHANGED <<now, mailings, next_id, attempts, recipient_table, last,
               messages, accounts, next_token>>

(* The writing view loads its Mailing instance and sets the new fields:   *)
(* toggle_mailing_active flips is_active, MailingUpdateView takes the     *)
(* window of a valid form                                                  *)
writer_get_object(pk, m) ==
  /\ threads.writer.pc = "idle"
  /\ pk \in DOMAIN mailings
  /\ \/ m = [mailings[pk] EXCEPT !.is_active = ~mailings[pk].is_active]
     \/ /\ m = [mailings[pk] EXCEPT !.start_time = m.start_time,
                                    !.end_time = m.end_time]
        /\ ~form_invalid(m.start_time, m.end_time, now)
  /\ threads' = [threads EXCEPT !.writer = [pc |-> "loaded", pk |-> pk, self |-> m,
                                            raised |-> FALSE]]
  /\ UNCHANGED <<now, mailings, next_id, cache, attempts, recipient_table, last,
               messages, accounts, next_token>>

(* Mailing.save: self.full_clean() *)
save_full_clean ==
  /\ threads.writer.pc = "loaded"
  /\ threads' = [threads EXCEPT !.writer =
       IF clean_raises(threads.writer.self, now)
         THEN [threads.writer EXCEPT !.pc = "done", !.raised = TRUE]
         ELSE [threads.writer EXCEPT !.pc = "cleaned"]]
  /\ UNCHANGED <<now, mailings, next_id, cache, attempts, recipient_table, last,
               messages, accounts, next_token>>

(* Mailing.save: cache.delete(mailing_status_<id>) before the row is      *)
(* written                                                                 *)
save_cache_delete ==
  /\ threads.writer.pc = "cleaned"
  /\ cache' = cache_delete(cache, threads.writer.pk)
  /\ threads' = [threads EXCEPT !.writer.pc = "deleted"]
  /\ UNCHANGED <<now, mailings, next_id, attempts, recipient_table, last,
               messages, accounts, next_token>>

(* Mailing.save: super().save() writes the row *)
save_super_save ==
  /\ threads.writer.pc = "deleted"
  /\ mailings' = (threads.writer.pk :> threads.writer.self) @@ mailings
  /\ threads' = [threads EXCEPT !.writer.pc = "saved"]
  /\ UNCHANGED <<now, next_id, cache, attempts, recipient_table, last,
               messages, accounts, next_token>>

(* clear_mailing_cache (post_save) and the cache.delete of the view: the  *)
(* last clearing of the key by the write                                   *)
clear_mailing_cache ==
  /\ threads.writer.pc = "saved"
  /\ cache' = cache_delete(cache, threads.writer.pk)
  /\ threads' = [threads EXCEPT !.writer.pc = "done"]
  /\ UNCHANGED <<now, mailings, next_id, attempts, recipient_table, last,
               messages, accounts, next_token>>

(* One stored mailing with a valid window, at any instant, with the       *)
(* status cache empty                                                      *)
InitRace ==
  /\ now \in Times
  /\ \E start \in Times, end \in Times, active \in BOOLEAN :
       /\ start < end
       /\ mailings = (1 :> [start_time |-> start, end_time |-> end, is_active |-> active,
                            message |-> "m1", recipients |-> Recipients, owner |-> "u1"])
  /\ next_id = 2
  /\ cache = NoCache
  /\ attempts = <<>>
  /\ recipient_table = Recipients
  /\ last = NoLast
  /\ messages = InitialMessages
  /\ threads = NoThreads
  /\ accounts = InitialAccounts
  /\ next_token = 1

NextRace ==
  \/ reader_get_object(1)
  \/ get_dynamic_status_get
  \/ get_dynamic_status_set
  \/ \E start \in Times, end \in Times, active \in BOOLEAN :
       writer_get_object(1, [mailings[1] EXCEPT !.start_time = start, !.end_time = end,
                                                !.is_active = active])
  \/ save_full_clean
  \/ save_cache_delete
  \/ save_super_save
  \/ clear_mailing_cache

SpecRace == InitRace /\ [][NextRace]_vars

----------------------------------------------------------------------------
(* E-mail verification: register, resend_verification, verify_email *)

(* verify_email: email_verification_sent_at and                           *)
(* email_verification_sent_at + timedelta(hours=24) > timezone.now()       *)
token_fresh(sent_at, t) == sent_at # NotSent /\ sent_at + TokenLifetime > t

(* User.generate_verification_token: a new uuid4 token and the time of    *)
(* issue are stored on the user                                            *)
generate_verification_token(accts, email, token, t) ==
  [accts EXCEPT ![email].email_verification_token = token,
                ![email].email_verification_sent_at = t]

(* send_verification_email: the token is generated and saved, then the    *)
(* letter is built (reverse, render_to_string) and sent with              *)
(* fail_silently=False; either can raise, after the token is stored        *)
send_verification_email(accts, email, token, t, delivered) ==
  [accounts |-> generate_verification_token(accts, email, token, t),
   raised |-> ~delivered]

(* register: a valid form (the e-mail is unique) stores the user          *)
(* unverified and sends the verification letter                            *)
register(email, delivered) ==
  /\ Idle
  /\ next_token <= MaxTokens
  /\ LET base == [NoLast EXCEPT !.op = "register", !.user = email, !.at = now]
         sent == send_verification_email((email :> Account(FALSE, NoToken, NotSent)) @@ accounts,
                                         email, next_token, now, delivered)
     IN IF email \in DOMAIN accounts
          THEN /\ UNCHANGED <<accounts, next_token>>
               /\ last' = [base EXCEPT !.level = "error"]
          ELSE /\ accounts' = sent.accounts
               /\ next_token' = next_token + 1
               /\ last' = [base EXCEPT !.token = next_token,
                              !.level = IF sent.raised THEN "exception" ELSE "success"]
  /\ UNCHANGED <<now, mailings, next_id, cache, attempts, recipient_table,
               messages, threads>>

(* resend_verification: User.objects.get(email=email, is_verified=False)  *)
(* and a new letter, or the error message                                  *)
resend_verification(email, delivered) ==
  /\ Idle
  /\ next_token <= MaxTokens
  /\ LET base == [NoLast EXCEPT !.op = "resend_verification", !.user = email, !.at = now]
         sent == send_verification_email(accounts, email, next_token, now, delivered)
     IN IF email \in DOMAIN accounts /\ ~accounts[email].is_verified
          THEN /\ accounts' = sent.accounts
               /\ next_token' = next_token + 1
               /\ last' = [base EXCEPT !.token = next_token,
                              !.level = IF sent.raised THEN "exception" ELSE "success"]
          ELSE /\ UNCHANGED <<accounts, next_token>>
               /\ last' = [base EXCEPT !.level = "error", !.report = "not_found"]
  /\ UNCHANGED <<now, mailings, next_id, cache, attempts, recipient_table,
               messages, threads>>

(* Variant: a followed link stays stored on the user *)
verify_email_keep_token(token) ==
  /\ Idle
  /\ LET base == [NoLast EXCEPT !.op = "verify_email", !.token = token, !.at = now]
         found == {email \in DOMAIN accounts :
                     accounts[email].email_verification_token = token}
     IN IF found = {}
          THEN /\ UNCHANGED accounts
               /\ last' = [base EXCEPT !.level = "error", !.report = "invalid"]
          ELSE LET email == CHOOSE e \in found : TRUE
               IN IF token_fresh(accounts[email].email_verification_sent_at, now)
                    THEN /\ accounts' = [accounts EXCEPT ![email].is_verified = TRUE]
                         /\ last' = [base EXCEPT !.user = email, !.level = "success",
                                                 !.report = "verified"]
                    ELSE /\ UNCHANGED accounts
                         /\ last' = [base EXCEPT !.user = email, !.level = "error",
                                                 !.report = "expired"]
  /\ UNCHANGED <<now, mailings, next_id, cache, attempts, recipient_table,
               messages, threads, next_token>>

(* verify_email: the user holding the token is looked up; inside 24 hours *)
(* of the issue the user is verified and the token and its time cleared,   *)
(* later the link is reported as expired; no such user, as invalid         *)
verify_email(token) ==
  /\ Idle
  /\ LET base == [NoLast EXCEPT !.op = "verify_email", !.token = token, !.at = now]
         found == {email \in DOMAIN accounts :
                     accounts[email].email_verification_token = token}
     IN IF found = {}
          THEN /\ UNCHANGED accounts
               /\ last' = [base EXCEPT !.level = "error", !.report = "invalid"]
          ELSE LET email == CHOOSE e \in found : TRUE
               IN IF token_fresh(accounts[email].email_verification_sent_at, now)
                    THEN /\ accounts' = [accounts EXCEPT ![email] = Account(TRUE, NoToken, NotSent)]
                         /\ last' = [base EXCEPT !.user = email, !.level = "success",
                                                 !.report = "verified"]
                    ELSE /\ UNCHANGED accounts
                         /\ last' = [base EXCEPT !.user = email, !.level = "error",
                                                 !.report = "expired"]
  /\ UNCHANGED <<now, mailings, next_id, cache, attempts, recipient_table,
               messages, threads, next_token>>

(* The instants requests arrive at: the first ones, and those 24 hours,   *)
(* and 24 hours less one unit, after them, so that a link is followed     *)
(* just before and just as it expires                                      *)
Instants == {t + d : t \in Times, d \in {0, TokenLifetime - 1, TokenLifetime}}

(* Time passes until the next request *)
Wait(t) ==
  /\ Idle
  /\ t > now
  /\ now' = t
  /\ UNCHANGED <<mailings, next_id, cache, attempts, recipient_table, last,
               messages, threads, accounts, next_token>>

NextVerify ==
  \/ \E t \in Instants : Wait(t)
  \/ Respond
  \/ \E email \in NewEmails \cup Users, delivered \in BOOLEAN : register(email, delivered)
  \/ \E email \in NewEmails \cup Users, delivered \in BOOLEAN :
       resend_verification(email, delivered)
  \/ \E token \in Tokens : verify_email(token)

SpecVerify == Init /\ [][NextVerify]_vars

----------------------------------------------------------------------------
(* Messages: MessageUpdateView, MessageDeleteView, and the mailings that  *)
(* reference them                                                          *)

(* MessageUpdateView: the owner alone passes test_func; MessageForm writes *)
(* subject and body                                                         *)
MessageUpdateView(user, pk, subject, body) ==
  /\ Idle
  /\ pk \in DOMAIN messages
  /\ LET base == [NoLast EXCEPT !.op = "update_message", !.user = user, !.at = now]
     IN IF user # messages[pk].owner
          THEN /\ UNCHANGED messages
               /\ last' = [base EXCEPT !.level = "forbidden"]
          ELSE /\ messages' = [messages EXCEPT ![pk].subject = subject,
                                               ![pk].body = body]
               /\ last' = [base EXCEPT !.level = "success"]
  /\ UNCHANGED <<now, mailings, next_id, cache, attempts, recipient_table,
               threads, accounts, next_token>>

(* on_delete=CASCADE of Mailing.message, variant: the mailings of a       *)
(* deleted message stay                                                     *)
cascade_message_keep(ms, pk) == {}

(* on_delete=CASCADE of Mailing.message: the mailings that go with a      *)
(* deleted message                                                          *)
cascade_message(ms, pk) == {id \in DOMAIN ms : ms[id].message = pk}

(* MessageDeleteView: the owner alone passes test_func; the row goes, the *)
(* mailings that reference it cascade and their attempt records with them; *)
(* post_delete of each mailing drops its status key                        *)
MessageDeleteView(user, pk) ==
  /\ Idle
  /\ pk \in DOMAIN messages
  /\ LET base == [NoLast EXCEPT !.op = "delete_message", !.user = user, !.at = now]
         gone == cascade_message(mailings, pk)
         kept == SelectSeq(attempts, LAMBDA a : a.mailing \notin gone)
     IN IF user # messages[pk].owner
          THEN /\ UNCHANGED <<messages, mailings, cache, attempts>>
               /\ last' = [base EXCEPT !.level = "forbidden"]
          ELSE /\ messages' = [m \in DOMAIN messages \ {pk} |-> messages[m]]
               /\ mailings' = [id \in DOMAIN mailings \ gone |-> mailings[id]]
               /\ cache' = [k \in DOMAIN cache \ gone |-> cache[k]]
               /\ attempts' = kept
               /\ last' = [base EXCEPT !.level = "success",
                                       !.cascaded = Len(attempts) - Len(kept)]
  /\ UNCHANGED <<now, next_id, recipient_table, threads, accounts, next_token>>

(* Two messages of u1 as first written; mailings are created and edited   *)
(* against them, sent by the view, the command and the scheduled function, *)
(* and the messages are edited and deleted in between                      *)
InitMessage ==
  /\ now = 0
  /\ mailings = <<>>
  /\ next_id = 1
  /\ cache = NoCache
  /\ attempts = <<>>
  /\ recipient_table = Recipients
  /\ last = NoLast
  /\ messages = [m \in Messages |-> Message("s1", "b1", "u1")]
  /\ threads = NoThreads
  /\ accounts = InitialAccounts
  /\ next_token = 1

NextMessage ==
  \/ Respond
  \/ \E message \in Messages, recips \in RecipientSets :
       MailingCreateView("u1", 0, MaxTime, message, recips)
  \/ \E pk \in Ids, message \in Messages, recips \in RecipientSets :
       MailingUpdateView("u1", pk, 0, MaxTime, message, recips)
  \/ \E user \in Users, pk \in Messages, subject \in Subjects, body \in Bodies :
       MessageUpdateView(user, pk, subject, body)
  \/ \E user \in Users, pk \in Messages : MessageDeleteView(user, pk)
  \/ \E pk \in Ids : \E fails \in SUBSET ViewTargets(pk) : \E err \in Raised(fails) :
       send_mailing("u1", pk, fails, err)
  \/ \E fails \in SUBSET BatchTargets(0, None, FALSE, FALSE) : \E err \in Raised(fails) :
       handle(0, None, FALSE, FALSE, fails, err)
  \/ \E fails \in SUBSET ScheduledTargets : \E err \in Raised(fails) :
       send_scheduled_mailings(fails, err)

SpecMessage == InitMessage /\ [][NextMessage]_vars

----------------------------------------------------------------------------
(* Vocabulary of the properties *)

(* The stored fields put the mailing inside its window and active at t *)
InWindow(m, t) == m.start_time <= t /\ t <= m.end_time /\ m.is_active

(* The request just served was a manual dispatch / a run of the command   *)
(* that processed mailings                                                 *)
ViewDispatched == last.op = "send_mailing" /\ last.report = "completed"
BatchRan == last.op = "handle" /\ last.report = "summary"

(* The attempt records the request just served appended *)
NewRecords == SubSeq(attempts, Len(attempts) - last.appended + 1, Len(attempts))

(* The members of a sequence *)
Range(seq) == {seq[i] : i \in DOMAIN seq}

(* How many entries of a sequence of calls or records belong to a mailing *)
CountFor(seq, id) == Cardinality({i \in DOMAIN seq : seq[i].mailing = id})

(* The mailings a run of the command sent to *)
SentIds == {id \in DOMAIN last.results : last.results[id].calls # <<>>}

(* The requests that send: the view, the command, the scheduled function *)
DispatchOps == {"send_mailing", "handle", "send_scheduled_mailings"}

(* s is an initial part of t *)
IsPrefix(s, t) == Len(s) <= Len(t) /\ SubSeq(t, 1, Len(s)) = s

(* The order of the statuses in the life of a mailing *)
StatusRank(status) ==
  CASE status = "created" -> 0 [] status = "started" -> 1 [] status = "completed" -> 2

(* The verification tokens stored on users *)
HeldTokens(accts) == {accts[e].email_verification_token : e \in DOMAIN accts} \ {NoToken}

(* How many records a log holds for a mailing and a recipient *)
RecordsOf(log, id, r) ==
  Cardinality({i \in DOMAIN log : log[i].mailing = id /\ log[i].recipient = r})

----------------------------------------------------------------------------
(* C1: on a cache miss get_dynamic_status returns exactly one of created, *)
(* started, completed: created iff now < start_time; started iff          *)
(* start_time <= now <= end_time and is_active, both bounds inclusive;    *)
(* completed otherwise (so an inactive mailing inside its window is       *)
(* completed).  Checked under SpecStatus.                                  *)
C1_StatusRules ==
  (last.op = "detail" /\ last.miss) =>
    LET m == mailings[last.pk]
        before == now < m.start_time
        running == m.start_time <= now /\ now <= m.end_time /\ m.is_active
    IN /\ last.status \in Statuses
       /\ (last.status = "created") <=> before
       /\ (last.status = "started") <=> running
       /\ (last.status = "completed") <=> (~before /\ ~running)
       /\ (~m.is_active /\ m.start_time <= now /\ now <= m.end_time)
            => last.status = "completed"

(* An active mailing read at now = end_time on a cache miss is started *)
C1_Witness ==
  /\ last.op = "detail" /\ last.miss
  /\ mailings[last.pk].is_active
  /\ mailings[last.pk].start_time < mailings[last.pk].end_time
  /\ now = mailings[last.pk].end_time
  /\ last.status = "started"

----------------------------------------------------------------------------
(* C2: one dispatch of a mailing with N recipients, from the view or the  *)
(* command, calls the transport for each of the N recipients whichever    *)
(* deliveries fail, has success_count + failed_count = N and appends      *)
(* exactly N attempt records.                                              *)
C2_DispatchIsolation ==
  /\ ViewDispatched =>
       LET n == Cardinality(mailings[last.pk].recipients)
       IN /\ last.success_count + last.failed_count = n
          /\ last.appended = n
          /\ Len(NewRecords) = n
          /\ Len(last.calls) = n
          /\ {c.recipient : c \in Range(last.calls)} = mailings[last.pk].recipients
  /\ BatchRan =>
       \A id \in SentIds :
         LET res == last.results[id]
             n == Cardinality(mailings[id].recipients)
         IN /\ res.success_count + res.failed_count = n
            /\ res.appended = n
            /\ CountFor(NewRecords, id) = n
            /\ Len(res.calls) = n
            /\ {c.recipient : c \in Range(res.calls)} = mailings[id].recipients

(* A run of the command in which the first delivery failed and the next   *)
(* one was still made, and succeeded                                       *)
C2_Witness ==
  /\ BatchRan
  /\ \E id \in SentIds :
       /\ Len(last.results[id].calls) = 2
       /\ last.results[id].calls[1].outcome # "ok"
       /\ last.results[id].calls[2].outcome = "ok"
       /\ last.results[id].success_count = 1
       /\ last.results[id].failed_count = 1

----------------------------------------------------------------------------
(* C3: a dispatch appends one attempt record per delivery call, in order, *)
(* for that mailing and that recipient, with status success iff the call  *)
(* returned; a failed record carries the text of the raised error and a   *)
(* success record the fixed delivered text; each recipient of a           *)
(* dispatched mailing gets exactly one call.                               *)
C3_RecordPerRecipient ==
  (ViewDispatched \/ BatchRan) =>
    /\ Len(NewRecords) = Len(last.calls)
    /\ \A i \in DOMAIN last.calls :
         LET c == last.calls[i]
             a == NewRecords[i]
         IN /\ a.mailing = c.mailing
            /\ a.recipient = c.recipient
            /\ (a.status = "success") <=> (c.outcome = "ok")
            /\ a.status \in {"success", "failed"}
            /\ a.status = "failed" => a.server_response = c.outcome
            /\ a.status = "success" => a.server_response = DeliveredText
    /\ \A id \in (IF ViewDispatched THEN {last.pk} ELSE SentIds) :
         \A r \in mailings[id].recipients :
           Cardinality({i \in DOMAIN last.calls :
                          last.calls[i].mailing = id /\ last.calls[i].recipient = r}) = 1
    /\ \A c \in Range(last.calls) :
         c.mailing \in (IF ViewDispatched THEN {last.pk} ELSE SentIds)

(* A manual dispatch with one failed and one delivered recipient *)
C3_Witness ==
  /\ ViewDispatched
  /\ last.appended = 2
  /\ \E a \in Range(NewRecords) : a.status = "failed" /\ a.server_response \in DeliveryErrors
  /\ \E a \in Range(NewRecords) : a.status = "success"

----------------------------------------------------------------------------
(* C4: without force, no delivery call is made and no attempt record is   *)
(* written for a mailing whose stored fields do not satisfy               *)
(* start_time <= now <= end_time and is_active at that moment, in the     *)
(* send_mailing view and in the command with or without --mailing-id,     *)
(* whatever the status cache holds.                                        *)
C4_NoSendOutsideWindow ==
  (last.op = "send_mailing" \/ (last.op = "handle" /\ ~last.args.force)) =>
    /\ \A c \in Range(last.calls) : InWindow(mailings[c.mailing], now)
    /\ \A a \in Range(NewRecords) : InWindow(mailings[a.mailing], now)

----------------------------------------------------------------------------
(* C5: the command sends to a processed mailing iff (force or the status  *)
(* get_dynamic_status returned is started) and it has recipients and      *)
(* dry-run is off; a mailing that is not started and not forced is        *)
(* skipped: no delivery call, no attempt record, counted under skipped    *)
(* and under neither succeeded nor failed.  The send_mailing view writes  *)
(* no attempt record when the status is not started.                       *)
C5_SkipRule ==
  /\ BatchRan =>
       /\ \A id \in DOMAIN last.results :
            LET res == last.results[id]
            IN /\ (res.calls # <<>>) <=>
                    /\ last.args.force \/ res.status = "started"
                    /\ mailings[id].recipients # {}
                    /\ ~last.args.dry_run
               /\ (res.appended > 0) => (res.calls # <<>>)
               /\ (~last.args.force /\ res.status # "started") =>
                    /\ res.skipped /\ ~res.success /\ ~res.failed
                    /\ res.calls = <<>>
                    /\ res.appended = 0
       /\ last.summary.skipped =
            Cardinality({id \in DOMAIN last.results : last.results[id].skipped})
       /\ last.summary.success =
            Cardinality({id \in DOMAIN last.results : last.results[id].success})
       /\ last.summary.failed =
            Cardinality({id \in DOMAIN last.results : last.results[id].failed})
  /\ (last.op = "send_mailing" /\ last.status # "started") =>
       /\ last.calls = <<>>
       /\ last.appended = 0

(* A run without force that skipped a mailing with recipients because its *)
(* status was not started                                                  *)
C5_Witness ==
  /\ BatchRan
  /\ ~last.args.force /\ ~last.args.dry_run
  /\ \E id \in DOMAIN last.results :
       /\ last.results[id].status # "started"
       /\ mailings[id].recipients # {}
       /\ last.results[id].skipped
       /\ last.summary.skipped >= 1

----------------------------------------------------------------------------
(* C6, as stated: without force and without --mailing-id the command      *)
(* selects exactly the mailings with start_time <= now <= end_time and    *)
(* is_active.  Checked under SpecSelect.                                   *)
C6_SelectsExactlyStarted ==
  (last.op = "handle" /\ ~last.args.force /\ last.args.mailing_id = 0) =>
    Range(last.selected) = {id \in DOMAIN mailings : InWindow(mailings[id], now)}

(* C6, amended: without force and without --mailing-id the command        *)
(* selects exactly the mailings with start_time <= now <= end_time and    *)
(* is_active, which are the mailings the uncached status rules call       *)
(* started at the same now, restricted to the mailings owned by the user  *)
(* of --user-email when that option is given (none when no user has that  *)
(* e-mail).  Checked under SpecSelect.                                     *)
C6_SelectsStartedOfOwner ==
  (last.op = "handle" /\ ~last.args.force /\ last.args.mailing_id = 0) =>
    /\ Range(last.selected) =
         {id \in DOMAIN mailings :
            /\ InWindow(mailings[id], now)
            /\ last.args.user_email # None => mailings[id].owner = last.args.user_email}
    /\ \A id \in DOMAIN mailings :
         InWindow(mailings[id], now) <=> compute_status(mailings[id], now) = "started"

(* A run filtered by owner that selected a started mailing of that owner  *)
(* and left out a started mailing of another owner                         *)
C6_Witness ==
  /\ last.op = "handle" /\ ~last.args.force /\ last.args.mailing_id = 0
  /\ last.args.user_email \in Users
  /\ \E id \in Range(last.selected) : now = mailings[id].end_time
  /\ \E id \in DOMAIN mailings :
       InWindow(mailings[id], now) /\ id \notin Range(last.selected)

----------------------------------------------------------------------------
(* C7: in a run without force, whether a processed mailing is sent to or  *)
(* skipped is decided by its stored fields, its recipients and now alone: *)
(* it is sent to iff it is inside its window, active and has recipients,  *)
(* whatever the status cache holds.                                        *)
C7_CacheIndependent ==
  (BatchRan /\ ~last.args.force /\ ~last.args.dry_run) =>
    \A id \in DOMAIN last.results :
      (last.results[id].calls # <<>>) <=>
        (InWindow(mailings[id], now) /\ mailings[id].recipients # {})

----------------------------------------------------------------------------
(* C8: with force the command selects exactly the mailings with           *)
(* is_active true, within the --mailing-id and --user-email restriction;  *)
(* a mailing with is_active false is never selected or sent to.            *)
C8_ForcedOnlyActive ==
  (last.op = "handle" /\ last.args.force) =>
    /\ Range(last.selected) =
         {id \in DOMAIN mailings :
            /\ mailings[id].is_active
            /\ last.args.mailing_id # 0 => id = last.args.mailing_id
            /\ last.args.user_email # None => mailings[id].owner = last.args.user_email}
    /\ \A c \in Range(last.calls) : mailings[c.mailing].is_active

----------------------------------------------------------------------------
----------------------------------------------------------------------------
(* C10: a dispatch of a mailing without recipients makes no delivery call *)
(* and writes no attempt record, and both the command and the             *)
(* send_mailing view report it as skipped, not as succeeded or failed.     *)
C10_EmptyIsSkipped ==
  /\ BatchRan =>
       \A id \in DOMAIN last.results :
         mailings[id].recipients = {} =>
           /\ last.results[id].calls = <<>>
           /\ last.results[id].appended = 0
           /\ last.results[id].skipped
           /\ ~last.results[id].success /\ ~last.results[id].failed
  /\ (last.op = "send_mailing" /\ last.status = "started"
        /\ mailings[last.pk].recipients = {}) =>
       /\ last.calls = <<>>
       /\ last.appended = 0
       /\ last.report = "skipped"
       /\ last.level # "success"

----------------------------------------------------------------------------
(* C11: a dispatch is neither idempotent nor deduplicated: each dispatch  *)
(* of a mailing adds one attempt record for each of its recipients on top *)
(* of the records already there, which stay as they were and where they   *)
(* were; so k dispatches to the same R recipients leave k * R records, k  *)
(* for each recipient.                                                     *)
C11_DispatchAccumulates ==
  [][last'.op \in DispatchOps =>
       /\ IsPrefix(attempts, attempts')
       /\ \A id \in DOMAIN mailings : \A r \in Recipients :
            RecordsOf(attempts', id, r) =
              RecordsOf(attempts, id, r)
                + (IF /\ id \in {c.mailing : c \in Range(last'.calls)}
                      /\ r \in mailings[id].recipients
                     THEN 1 ELSE 0)]_vars

(* The second manual dispatch of a mailing: its recipient has two records *)
C11_Witness ==
  /\ ViewDispatched
  /\ last.appended = 1
  /\ \E r \in mailings[last.pk].recipients : RecordsOf(attempts, last.pk, r) = 2

----------------------------------------------------------------------------
(* C12: a run of the command with --dry-run, whatever the other options   *)
(* and the stored state, makes no delivery call and leaves the attempt    *)
(* records as they were; selection and the status and empty-recipient     *)
(* checks still run: every selected mailing is processed, and it is       *)
(* reported skipped iff it is not started (without force) or has no       *)
(* recipients, and as a success otherwise.                                 *)
C12_DryRunSendsNothing ==
  [][(last'.op = "handle" /\ last'.args.dry_run) =>
       /\ attempts' = attempts
       /\ last'.calls = <<>>
       /\ last'.appended = 0
       /\ DOMAIN last'.results = Range(last'.selected)
       /\ \A id \in DOMAIN last'.results :
            LET res == last'.results[id]
            IN /\ res.status \in Statuses
               /\ res.calls = <<>>
               /\ res.skipped <=>
                    \/ ~last'.args.force /\ res.status # "started"
                    \/ mailings[id].recipients = {}
               /\ ~res.skipped => (res.success /\ ~res.failed)]_vars

(* A forced dry run over a mailing with recipients while records exist:   *)
(* it is reported as a success and nothing is sent                         *)
C12_Witness ==
  /\ BatchRan
  /\ last.args.dry_run /\ last.args.force
  /\ attempts # <<>>
  /\ \E id \in DOMAIN last.results :
       /\ mailings[id].recipients # {}
       /\ last.results[id].success
       /\ last.results[id].why = "dry_run"

----------------------------------------------------------------------------
(* C13: every run of the command, whatever its options and the stored     *)
(* state (nothing selected and an unknown owner e-mail included), ends by *)
(* printing the summary of total, succeeded, failed and skipped.          *)
C13_AlwaysSummary ==
  last.op = "handle" =>
    /\ last.summary.printed
    /\ last.report = "summary"
    /\ last.summary.total = Len(last.selected)

----------------------------------------------------------------------------
(* C14: a run of the command with an owner e-mail of no user writes the   *)
(* error, selects no mailing, also with --mailing-id or --force, makes no *)
(* delivery call, writes no attempt record and ends without an exception. *)
C14_UnknownOwnerSelectsNothing ==
  [][(last'.op = "handle" /\ last'.args.user_email \notin Users \cup {None}) =>
       /\ last'.stderr = "user_not_found"
       /\ last'.selected = <<>>
       /\ last'.results = <<>>
       /\ last'.calls = <<>>
       /\ last'.appended = 0
       /\ attempts' = attempts
       /\ last'.level # "exception"]_vars

(* A forced run for an existing active mailing with recipients, by its    *)
(* id, with the e-mail of no user                                          *)
C14_Witness ==
  /\ last.op = "handle"
  /\ last.args.user_email = UnknownEmail
  /\ last.args.force
  /\ last.args.mailing_id \in DOMAIN mailings
  /\ mailings[last.args.mailing_id].is_active
  /\ mailings[last.args.mailing_id].recipients # {}
  /\ last.stderr = "user_not_found"

----------------------------------------------------------------------------
(* C15: whatever is created, updated, toggled and deleted, every stored   *)
(* mailing has start_time < end_time (so now = start_time = end_time      *)
(* cannot happen); a create or update submitted with                      *)
(* start_time >= end_time is rejected and leaves the tables as they were. *)
C15_WindowOrdered ==
  /\ [](\A id \in DOMAIN mailings : mailings[id].start_time < mailings[id].end_time)
  /\ [][(/\ last'.op \in {"create", "update"}
          /\ last'.form.start_time >= last'.form.end_time) =>
           /\ last'.level \in {"error", "forbidden"}
           /\ UNCHANGED <<mailings, next_id, attempts, recipient_table>>]_vars

(* An update of a stored mailing by its owner, with a start that is not   *)
(* in the past and not before the end, was rejected                        *)
C15_Witness ==
  /\ last.op = "update"
  /\ last.user = mailings[last.pk].owner
  /\ last.form.start_time >= last.form.end_time
  /\ last.form.start_time >= now
  /\ last.level = "error"

----------------------------------------------------------------------------
(* C16: a create with start_time earlier than now is rejected and stores  *)
(* nothing; after creation the check is not applied again: a toggle by a  *)
(* permitted user of a stored mailing whose start_time has passed is not  *)
(* rejected and flips is_active.                                           *)
C16_StartInPastOnlyAtCreation ==
  [][/\ (last'.op = "create" /\ last'.form.start_time < now) =>
          /\ last'.level = "error"
          /\ UNCHANGED <<mailings, next_id>>
     /\ (/\ last'.op = "toggle"
         /\ \/ last'.user = mailings[last'.pk].owner
            \/ has_perm(last'.user, "can_disable_mailing")) =>
          /\ last'.level = "success"
          /\ mailings'[last'.pk].is_active = ~mailings[last'.pk].is_active]_vars

----------------------------------------------------------------------------
(* C17: the attempt log is append-only.  A step either leaves it as it    *)
(* was, or is a dispatch (the view, the command, send_scheduled_mailings) *)
(* that adds records after the ones there, or is the deletion of a        *)
(* mailing or of a recipient, which removes the records of that mailing   *)
(* or recipient and no other; no step changes a field of a record.        *)
C17_AppendOnly ==
  [][\/ attempts' = attempts
     \/ /\ last'.op \in DispatchOps
        /\ IsPrefix(attempts, attempts')
     \/ /\ last'.op = "delete_mailing"
        /\ last'.pk \notin DOMAIN mailings'
        /\ attempts' = SelectSeq(attempts, LAMBDA a : a.mailing # last'.pk)
     \/ /\ last'.op = "delete_recipient"
        /\ \E r \in recipient_table \ recipient_table' :
             attempts' = SelectSeq(attempts, LAMBDA a : a.recipient # r)]_vars

(* The deletion of a recipient removed its record and left the record of  *)
(* another recipient                                                       *)
C17_Witness ==
  /\ last.op = "delete_recipient"
  /\ last.level = "success"
  /\ last.cascaded > 0
  /\ attempts # <<>>

----------------------------------------------------------------------------
(* C18: every attempt record refers to a stored mailing and a stored      *)
(* recipient, whatever was dispatched and deleted: the deletion of a      *)
(* mailing or of a recipient takes every record that refers to it.        *)
C18_NoDanglingRecord ==
  \A a \in Range(attempts) :
    /\ a.mailing \in DOMAIN mailings
    /\ a.recipient \in recipient_table

(* The deletion of a mailing that took its two records *)
C18_Witness ==
  /\ last.op = "delete_mailing"
  /\ last.level = "success"
  /\ last.cascaded = 2
  /\ last.pk \notin DOMAIN mailings

----------------------------------------------------------------------------
(* C19: the status get_dynamic_status returns at time now is the status   *)
(* rules applied to the stored fields of the mailing at some time t with  *)
(* now - 60 <= t <= now, the time the cached value was computed (now      *)
(* itself on a miss); and every successful save of a mailing leaves no    *)
(* cached status for it.  Checked under SpecCache.                         *)
C19_BoundedStaleness ==
  /\ []((last.op = "detail" /\ last.status # None) =>
          LET computed_at == cache[last.pk].expires - CacheTTL
          IN /\ now - 60 <= computed_at
             /\ computed_at <= now
             /\ last.miss => computed_at = now
             /\ last.status = compute_status(mailings[last.pk], computed_at))
  /\ [][(last'.op \in {"create", "update", "toggle"} /\ last'.level = "success") =>
           last'.pk \notin DOMAIN cache']_vars

(* A cached status served one unit before it expires, when the rules say  *)
(* otherwise                                                               *)
C19_Witness ==
  /\ last.op = "detail"
  /\ ~last.miss
  /\ now - (cache[last.pk].expires - CacheTTL) = CacheTTL - 1
  /\ last.status # compute_status(mailings[last.pk], now)

----------------------------------------------------------------------------
(* C20: a run of the command processes every selected mailing exactly     *)
(* once: the total it reports is the number of mailings selected, each    *)
(* selected mailing has one result, and whichever deliveries fail every   *)
(* mailing due to be sent to (forced or started, with recipients, no dry  *)
(* run) has a delivery call for each of its recipients.  Checked under    *)
(* SpecBatch.                                                              *)
C20_EverySelectedProcessed ==
  BatchRan =>
    /\ last.summary.total = Len(last.selected)
    /\ DOMAIN last.results = Range(last.selected)
    /\ Cardinality(Range(last.selected)) = Len(last.selected)
    /\ \A id \in Range(last.selected) :
         LET res == last.results[id]
         IN (/\ last.args.force \/ res.status = "started"
             /\ mailings[id].recipients # {}
             /\ ~last.args.dry_run) =>
              {c.recipient : c \in Range(res.calls)} = mailings[id].recipients

(* A run over two mailings: every delivery of the first one failed and    *)
(* the second one was still sent to                                        *)
C20_Witness ==
  /\ BatchRan
  /\ Len(last.selected) = 2
  /\ last.results[last.selected[1]].failed
  /\ ~last.results[last.selected[1]].success
  /\ last.results[last.selected[2]].calls # <<>>
  /\ last.summary.total = 2

----------------------------------------------------------------------------
(* C21: a mailing references its message without copying it: the subject  *)
(* and the body given to every delivery call of a dispatch (the view, the *)
(* command, the scheduled function) are the stored subject and body of    *)
(* the mailing's message at the time of that dispatch, whatever the       *)
(* message held when the mailing was created or last sent.                *)
C21_SendsStoredMessage ==
  last.op \in DispatchOps =>
    \A i \in DOMAIN last.calls :
      LET call == last.calls[i]
      IN /\ call.mailing \in DOMAIN mailings
         /\ mailings[call.mailing].message \in DOMAIN messages
         /\ call.subject = messages[mailings[call.mailing].message].subject
         /\ call.body = messages[mailings[call.mailing].message].body

(* A dispatch of a mailing that had been sent before, with the text the   *)
(* message was edited to after the mailing was created                     *)
C21_Witness ==
  /\ last.op \in DispatchOps
  /\ last.calls # <<>>
  /\ Len(attempts) > last.appended
  /\ \A i \in DOMAIN last.calls :
       last.calls[i].subject = "s2" /\ last.calls[i].body = "b2"

----------------------------------------------------------------------------
(* C22: with the stored fields of a mailing held fixed, the status        *)
(* computed without the cache never goes back as time advances: over any  *)
(* two instants up to now it moves only created -> started -> completed,  *)
(* completed stays completed, started is not entered again once left, and *)
(* an inactive mailing is never started (created -> completed); a status  *)
(* read on a cache miss is that status.                                    *)
C22_StatusNeverRegresses ==
  \A id \in DOMAIN mailings :
    /\ \A t1 \in 0..now, t2 \in 0..now :
         t1 <= t2 =>
           /\ StatusRank(compute_status(mailings[id], t1))
                <= StatusRank(compute_status(mailings[id], t2))
           /\ ~mailings[id].is_active => compute_status(mailings[id], t2) # "started"
    /\ (last.op = "detail" /\ last.pk = id /\ last.miss) =>
         /\ last.status = compute_status(mailings[id], last.at)
         /\ \A t \in 0..last.at :
              StatusRank(compute_status(mailings[id], t)) <= StatusRank(last.status)

(* A mailing that was created, then started, and is read as completed *)
C22_Witness ==
  /\ 1 \in DOMAIN mailings
  /\ now = 2
  /\ compute_status(mailings[1], 0) = "created"
  /\ compute_status(mailings[1], 1) = "started"
  /\ last.op = "detail" /\ last.miss /\ last.status = "completed"

----------------------------------------------------------------------------
(* C23: in the summary of a run of the command, a mailing counted as      *)
(* skipped is counted neither as succeeded nor as failed; a mailing of a  *)
(* real run that was not skipped is counted as succeeded, as failed, or   *)
(* as both, and as both exactly when it had a successful and a failed     *)
(* delivery; the counters are the numbers of such mailings, so            *)
(* total <= succeeded + failed + skipped <= 2 * total.                    *)
C23_SummaryCounts ==
  BatchRan =>
    LET results == last.results
        summary == last.summary
        Count(flag(_)) == Cardinality({id \in DOMAIN results : flag(results[id])})
        IsSuccess(r) == r.success
        IsFailed(r) == r.failed
        IsSkipped(r) == r.skipped
    IN /\ \A id \in DOMAIN results :
            LET r == results[id]
                delivered == \E i \in DOMAIN r.calls : r.calls[i].outcome = "ok"
                refused == \E i \in DOMAIN r.calls : r.calls[i].outcome # "ok"
            IN /\ r.skipped => ~r.success /\ ~r.failed
               /\ (~r.skipped /\ ~last.args.dry_run) =>
                    /\ r.success \/ r.failed
                    /\ r.success <=> delivered
                    /\ r.failed <=> refused
       /\ summary.total = Cardinality(DOMAIN results)
       /\ summary.success = Count(IsSuccess)
       /\ summary.failed = Count(IsFailed)
       /\ summary.skipped = Count(IsSkipped)
       /\ summary.total <= summary.success + summary.failed + summary.skipped
       /\ summary.success + summary.failed + summary.skipped <= 2 * summary.total

(* A real run over two mailings: one skipped, one with a delivery that    *)
(* succeeded and one that failed, so that the counters add up to more     *)
(* than the total                                                          *)
C23_Witness ==
  /\ BatchRan
  /\ ~last.args.dry_run
  /\ last.summary.total = 2
  /\ last.summary.skipped = 1
  /\ last.summary.success = 1
  /\ last.summary.failed = 1

----------------------------------------------------------------------------
(* C24: when a write of a mailing (Mailing.save from the update view or   *)
(* from toggle_mailing_active) runs at the same time as a                 *)
(* get_dynamic_status of the same mailing, then once both have finished   *)
(* and the write went through, the status cache holds no value computed   *)
(* from the fields the mailing had before the write: a cached status is   *)
(* the status of the stored fields.                                        *)
C24_NoStaleFillAfterWrite ==
  (/\ threads.reader.pc = "done"
   /\ threads.writer.pc = "done"
   /\ ~threads.writer.raised
   /\ threads.reader.pk = threads.writer.pk
   /\ threads.writer.pk \in DOMAIN cache)
    => cache[threads.writer.pk].value = compute_status(mailings[threads.writer.pk], now)

----------------------------------------------------------------------------
(* C25: a request by a user who is neither the owner of the mailing nor   *)
(* holds the permission of the view changes nothing: send_mailing         *)
(* (can_view_all_mailings) makes no delivery call and writes no attempt   *)
(* record, toggle_mailing_active (can_disable_mailing) leaves is_active   *)
(* as it was; the mailings, the records and the status cache are          *)
(* untouched.                                                              *)
C25_UnauthorizedChangesNothing ==
  [][\A pk \in DOMAIN mailings :
       LET stranger(perm) == /\ last'.pk = pk
                             /\ last'.user # mailings[pk].owner
                             /\ ~has_perm(last'.user, perm)
       IN /\ (last'.op = "send_mailing" /\ stranger("can_view_all_mailings")) =>
               /\ last'.calls = <<>>
               /\ last'.level = "error"
               /\ UNCHANGED <<mailings, attempts, cache>>
          /\ (last'.op = "toggle" /\ stranger("can_disable_mailing")) =>
               /\ pk \in DOMAIN mailings'
               /\ mailings'[pk].is_active = mailings[pk].is_active
               /\ last'.level = "error"
               /\ UNCHANGED <<mailings, attempts, cache>>]_vars

(* u1 asks to send a mailing of u2 that is inside its window, active and  *)
(* has recipients, and is refused                                          *)
C25_Witness ==
  /\ last.op = "send_mailing"
  /\ last.report = "no_permission"
  /\ last.pk \in DOMAIN mailings
  /\ last.user # mailings[last.pk].owner
  /\ InWindow(mailings[last.pk], now)
  /\ mailings[last.pk].recipients # {}

----------------------------------------------------------------------------
(* C26: deleting a message deletes every mailing that references it and   *)
(* with them all of their attempt records, and nothing else; after any     *)
(* sequence of operations every stored mailing references a stored         *)
(* message, so that every delivery call of a dispatch has a message to     *)
(* send.                                                                   *)
C26_MessageCascade ==
  /\ [](\A id \in DOMAIN mailings : mailings[id].message \in DOMAIN messages)
  /\ [][(last'.op = "delete_message" /\ last'.level = "success") =>
          \E pk \in DOMAIN messages :
            /\ DOMAIN messages' = DOMAIN messages \ {pk}
            /\ DOMAIN mailings' = {id \in DOMAIN mailings : mailings[id].message # pk}
            /\ \A id \in DOMAIN mailings' : mailings'[id] = mailings[id]
            /\ attempts' = SelectSeq(attempts, LAMBDA a : a.mailing \in DOMAIN mailings')
            /\ last'.cascaded = Len(attempts) - Len(attempts')]_vars

(* A message was deleted, and a mailing with attempt records went with it *)
C26_Witness ==
  /\ last.op = "delete_message"
  /\ last.level = "success"
  /\ last.cascaded > 0
  /\ mailings = <<>>
  /\ attempts = <<>>
  /\ next_id > 1

----------------------------------------------------------------------------
(* C27: e-mail verification tokens are single-use and time-limited:       *)
(* verify_email verifies a user only when the token it is given is the    *)
(* token stored on that user and was issued less than 24 hours before     *)
(* now; a successful verification clears the token, so that following the *)
(* link again is rejected as invalid; issuing a new token                 *)
(* (resend_verification) puts the previous token out of use; a token that *)
(* has gone out of use never comes back.                                   *)
C27_TokensSingleUseAndTimed ==
  /\ [](\A k \in HeldTokens(accounts) : k < next_token)
  /\ [][/\ HeldTokens(accounts') \subseteq HeldTokens(accounts) \cup {next_token}
        /\ next_token' >= next_token
        /\ \A e \in DOMAIN accounts' :
             (accounts'[e].is_verified /\ (e \in DOMAIN accounts => ~accounts[e].is_verified)) =>
               /\ e \in DOMAIN accounts
               /\ last'.op = "verify_email" /\ last'.report = "verified" /\ last'.user = e
               /\ accounts[e].email_verification_token = last'.token
               /\ accounts[e].email_verification_sent_at # NotSent
               /\ now - accounts[e].email_verification_sent_at < TokenLifetime
        /\ last'.op = "verify_email" =>
             /\ last'.report = "verified" <=>
                  \E e \in DOMAIN accounts :
                    /\ accounts[e].email_verification_token = last'.token
                    /\ accounts[e].email_verification_sent_at # NotSent
                    /\ now - accounts[e].email_verification_sent_at < TokenLifetime
             /\ last'.report = "invalid" <=> last'.token \notin HeldTokens(accounts)
             /\ last'.report = "verified" =>
                  /\ last'.token \notin HeldTokens(accounts')
                  /\ accounts'[last'.user].is_verified
             /\ last'.report # "verified" => accounts' = accounts
        /\ (last'.op = "resend_verification" /\ last'.level # "error") =>
             /\ accounts'[last'.user].email_verification_token = next_token
             /\ accounts'[last'.user].email_verification_sent_at = now
             /\ accounts[last'.user].email_verification_token \notin HeldTokens(accounts')
       ]_vars

(* u3 registered, followed the link and was verified; the link is         *)
(* followed a second time and rejected as invalid                          *)
C27_Witness ==
  /\ "u3" \in DOMAIN accounts
  /\ accounts["u3"].is_verified
  /\ next_token = 2
  /\ last.op = "verify_email"
  /\ last.token = 1
  /\ last.report = "invalid"

====
